---- MODULE Spec2Model ----
(***************************************************************************)
(* Rahalah Streamlit front end (src/streamlit_app.py): the session state   *)
(* kept in st.session_state, one script run of main() per user action,     *)
(* and the chat turn of process_user_input / send_message_to_api.          *)
(*                                                                         *)
(* Python values are tagged records [t, v]: t is the Python type ("str",   *)
(* "NoneType") or "absent" for a key a dict does not have.  A dict of      *)
(* search results is the sequence of its <<category, items>> pairs in      *)
(* insertion order, with distinct categories.                              *)
(***************************************************************************)
EXTENDS Integers, Sequences, FiniteSets, TLC

(* ---------------- bounds of the model ---------------- *)
\* a turn is started only while it fits in this many stored messages
MaxMessages == 4
\* how many of a mode's sample-query buttons the model clicks
MaxSample == 1
\* the ratings handed to display_stars, in tenths of a star
MaxTenths == 50

(* ---------------- Python values ---------------- *)
None == [t |-> "NoneType", v |-> ""]
Absent == [t |-> "absent", v |-> ""]
Str(s) == [t |-> "str", v |-> s]

\* bool(x) of a str / None value; dict.get of an absent key gives None
Truthy(x) == x.t = "str" /\ x.v # ""
\* d.get(key): the value, None when the key is absent
Get(x) == IF x.t = "absent" THEN None ELSE x
\* d.get(key, default)
GetDefault(x, default) == IF x.t = "absent" THEN default ELSE x

(* ---------------- configuration ---------------- *)
DEFAULT_MODE == "trip"
Modes == <<"trip", "flight", "hotel">>
ModeSet == {Modes[i] : i \in 1..Len(Modes)}

sample_queries ==
    [trip |-> <<"Plan a 7-day trip to Riyadh",
                "What's a good itinerary for a weekend in Jeddah?",
                "Suggest activities for a family vacation in Mecca">>,
     flight |-> <<"Find flights from Riyadh to Jeddah next weekend",
                  "What are the cheapest flights to Madinah in July?",
                  "Show me business class options from Riyadh to Dubai">>,
     hotel |-> <<"Find hotels in Riyadh near Kingdom Centre",
                 "What are the best 5-star hotels in Jeddah?",
                 "Show me family-friendly accommodations in Mecca">>]

(* ---------------- what the backend can answer ---------------- *)
EmptyDict == <<>>
ResultDicts ==
    { << <<"hotel", <<"h1">> >> >>,
      << <<"flight", <<"f1">> >>, <<"hotel", <<>> >> >> }

\* key in d
Has(d, key) == \E i \in 1..Len(d) : d[i][1] = key
\* d.get(key, [])
Items(d, key) ==
    IF Has(d, key) THEN d[CHOOSE i \in 1..Len(d) : d[i][1] = key][2] ELSE <<>>

\* the search_results key of a body: absent, or present with a dict
NoResults == [present |-> FALSE, value |-> EmptyDict]
Results(d) == [present |-> TRUE, value |-> d]

SessionIds == {"s1", "s2"}

EmptyBody == [response |-> Absent, session_id |-> Absent, search_results |-> NoResults,
              mode |-> Absent]
\* an error body that itself carries a session id and results
LoadedBody == [response |-> Str("hi"), session_id |-> Str("s2"),
               search_results |-> Results(<< <<"hotel", <<"h1">> >> >>),
               mode |-> Absent]

\* the mode a body may echo: any of the three, or one the client does not know
EchoedModes == {"trip", "flight", "hotel", "car"}

\* JSON objects the chat endpoint may return: every combination of the
\* fields the client reads, and bodies that also echo a mode
Bodies ==
    [response : {Absent, Str("hi")},
     session_id : {Absent, None, Str("")} \cup {Str(s) : s \in SessionIds},
     search_results : {NoResults, Results(EmptyDict)}
                        \cup {Results(d) : d \in ResultDicts},
     mode : {Absent}]
    \cup {[b EXCEPT !.mode = Str(m)] : b \in {EmptyBody, LoadedBody}, m \in EchoedModes}

\* outcomes of requests.post(...) followed by response.json():
\*   conn         requests.post raises (DNS, refused, timeout)
\*   http         a status other than 200; the body is error text
\*   decode       status 200, response.json() raises
\*   json_object  status 200, the body is a JSON object
\*   json_other   status 200, the body is valid JSON but not an object
\*                (truthy: [1]; not truthy: [] or null)
HttpOutcomes ==
    {[kind |-> "conn", status |-> 0, truthy |-> FALSE, body |-> EmptyBody]}
    \cup {[kind |-> "http", status |-> st, truthy |-> FALSE, body |-> b] :
            st \in {404, 500}, b \in {EmptyBody, LoadedBody}}
    \cup {[kind |-> "decode", status |-> 200, truthy |-> FALSE, body |-> EmptyBody]}
    \cup {[kind |-> "json_object", status |-> 200, truthy |-> TRUE, body |-> b] :
            b \in Bodies}
    \cup {[kind |-> "json_other", status |-> 200, truthy |-> tr, body |-> EmptyBody] :
            tr \in BOOLEAN}
NoHttp == [kind |-> "none", status |-> 0, truthy |-> FALSE, body |-> EmptyBody]

\* str(e) of the exception the transport raised
ExcText(http) == IF http.kind = "conn" THEN "Connection refused"
                 ELSE "Expecting value: line 1 column 1 (char 0)"

(* ---------------- state ---------------- *)
VARIABLES
    messages,         \* st.session_state.messages
    conversation_id,  \* st.session_state.conversation_id
    mode,             \* st.session_state.mode
    search_results,   \* st.session_state.search_results
    last_run,         \* the last script run: the user action, the request sent
                      \* and the transport outcome
    history,          \* what the backend has been told and has answered
    rating,           \* the rating_stars of the item being displayed, in tenths
    screen,           \* what the script drew last: the star string, the tabs
                      \* and the panel put into each tab
    suite             \* run_all_tests of src/test_api_connection.py: the
                      \* results dict so far and what the health check's
                      \* GET came back with

vars == <<messages, conversation_id, mode, search_results, last_run, history,
          rating, screen, suite>>

Session == [messages |-> messages, conversation_id |-> conversation_id,
            mode |-> mode, search_results |-> search_results]

NoRequest == [message |-> "", session_id |-> Absent, mode |-> ""]

\* no GET made yet
NoGet == [kind |-> "none", status |-> 0, shape |-> "none"]
\* run_all_tests has not run a test yet: results = {}
NoSuite == [results |-> <<>>, health |-> NoGet]

(* ---------------- send_message_to_api ---------------- *)
\* variant: the conversation id is sent as it is, None included
PayloadVerbatim(message, m, conv) ==
    [message |-> message, session_id |-> conv, mode |-> m]

\* the JSON payload posted to /api/chat
Payload(message, m, conv) ==
    [message |-> message,
     session_id |-> IF Truthy(conv) THEN conv ELSE Str(""),
     mode |-> m]

\* variant: the body is decoded and returned whatever the status is
send_message_to_api_AnyStatus(http) ==
    IF http.kind \in {"json_object", "http"}
    THEN [isdict |-> TRUE, truthy |-> TRUE, d |-> http.body]
    ELSE IF http.kind = "json_other"
    THEN [isdict |-> FALSE, truthy |-> http.truthy, d |-> EmptyBody]
    ELSE [isdict |-> TRUE, truthy |-> TRUE,
          d |-> [EmptyBody EXCEPT !.response = Str("Error: " \o ExcText(http))]]

\* variant: the logged error_msg is returned as the response text
send_message_to_api_LoggedText(http) ==
    IF http.kind = "json_object"
    THEN [isdict |-> TRUE, truthy |-> TRUE, d |-> http.body]
    ELSE IF http.kind = "json_other"
    THEN [isdict |-> FALSE, truthy |-> http.truthy, d |-> EmptyBody]
    ELSE IF http.kind = "http"
    THEN [isdict |-> TRUE, truthy |-> TRUE,
          d |-> [EmptyBody EXCEPT !.response =
                   Str("API Error: " \o ToString(http.status) \o " - body")]]
    ELSE [isdict |-> TRUE, truthy |-> TRUE,
          d |-> [EmptyBody EXCEPT !.response =
                   Str("Error communicating with the API: " \o ExcText(http))]]

\* the value send_message_to_api returns: the decoded body on 200, a
\* synthetic {"response": "Error: ..."} dict otherwise
send_message_to_api(http) ==
    IF http.kind = "json_object"
    THEN [isdict |-> TRUE, truthy |-> TRUE, d |-> http.body]
    ELSE IF http.kind = "json_other"
    THEN [isdict |-> FALSE, truthy |-> http.truthy, d |-> EmptyBody]
    ELSE IF http.kind = "http"
    THEN [isdict |-> TRUE, truthy |-> TRUE,
          d |-> [EmptyBody EXCEPT !.response =
                   Str("Error: Unable to get response from the assistant. Status code: "
                       \o ToString(http.status))]]
    ELSE [isdict |-> TRUE, truthy |-> TRUE,
          d |-> [EmptyBody EXCEPT !.response = Str("Error: " \o ExcText(http))]]

(* ---------------- process_user_input ---------------- *)
\* A frame is the session, the exception that is propagating, if any, the
\* payloads posted so far in this script run and the number of times
\* process_user_input was entered; a statement is skipped once an exception
\* propagates.
Frame(s) == [s |-> s, raised |-> "", sent |-> <<>>, turns |-> 0]

\* variant: the history is replaced by the new message
AppendUserReset(f, user_input) ==
    IF f.raised # "" THEN f
    ELSE [f EXCEPT !.s.messages = <<[role |-> "user", content |-> user_input]>>,
                   !.turns = @ + 1]

AppendUser(f, user_input) ==
    IF f.raised # "" THEN f
    ELSE [f EXCEPT !.s.messages = Append(@, [role |-> "user", content |-> user_input]),
                   !.turns = @ + 1]

\* variant: a failed request is posted a second time
PostRetry(f, user_input, http) ==
    IF f.raised # "" THEN f
    ELSE LET payload == Payload(user_input, f.s.mode, f.s.conversation_id)
         IN [f EXCEPT !.sent = IF http.kind \in {"http", "conn"}
                                THEN @ \o <<payload, payload>>
                                ELSE Append(@, payload)]

\* lines 134-151: the one requests.post of a turn
Post(f, user_input, http) ==
    IF f.raised # "" THEN f
    ELSE [f EXCEPT !.sent =
            Append(@, Payload(user_input, f.s.mode, f.s.conversation_id))]

\* lines 444 and 447: response_data.keys() / response_data.get(...) on a
\* value that is not a dict raises AttributeError
RequireDict(f, r) ==
    IF f.raised = "" /\ ~r.isdict THEN [f EXCEPT !.raised = "AttributeError"] ELSE f

\* variant: the conversation id is overwritten by whatever .get returns
UpdateConversationIdAlways(f, r) ==
    IF f.raised = ""
    THEN [f EXCEPT !.s.conversation_id = Get(r.d.session_id)]
    ELSE f

UpdateConversationId(f, r) ==
    IF f.raised = "" /\ Truthy(Get(r.d.session_id))
    THEN [f EXCEPT !.s.conversation_id = Get(r.d.session_id)]
    ELSE f

\* variant: response_data["response"], which raises KeyError on a body
\* without that key
AppendAssistantKeyError(f, r) ==
    IF f.raised # "" THEN f
    ELSE IF r.d.response.t = "absent" THEN [f EXCEPT !.raised = "KeyError"]
    ELSE [f EXCEPT !.s.messages =
            Append(@, [role |-> "assistant", content |-> r.d.response.v])]

\* variant: the session takes over the mode the response echoes
AppendAssistantAdoptMode(f, r) ==
    IF f.raised = ""
    THEN [f EXCEPT !.s.messages =
            Append(@, [role |-> "assistant",
                       content |-> GetDefault(r.d.response, Str("")).v]),
                   !.s.mode = GetDefault(r.d.mode, Str(@)).v]
    ELSE f

AppendAssistant(f, r) ==
    IF f.raised = ""
    THEN [f EXCEPT !.s.messages =
            Append(@, [role |-> "assistant",
                       content |-> GetDefault(r.d.response, Str("")).v])]
    ELSE f

\* variant: the stored results are overwritten by .get("search_results", {})
UpdateSearchResultsAlways(f, r) ==
    IF f.raised = ""
    THEN [f EXCEPT !.s.search_results = r.d.search_results.value]
    ELSE f

\* variant: the stored dict is updated with the new one (dict.update)
UpdateSearchResultsMerge(f, r) ==
    IF f.raised = "" /\ r.d.search_results.present /\ r.d.search_results.value # EmptyDict
    THEN LET old == f.s.search_results
             new == r.d.search_results.value
             Fresh(e) == ~Has(old, e[1])
         IN [f EXCEPT !.s.search_results =
               [i \in 1..Len(old) |->
                  IF Has(new, old[i][1]) THEN <<old[i][1], Items(new, old[i][1])>>
                  ELSE old[i]] \o SelectSeq(new, Fresh)]
    ELSE f

UpdateSearchResults(f, r) ==
    IF f.raised = "" /\ r.d.search_results.present /\ r.d.search_results.value # EmptyDict
    THEN [f EXCEPT !.s.search_results = r.d.search_results.value]
    ELSE f

\* variant: the script goes on after the turn (no st.rerun())
RerunMissing(f) == f

\* st.rerun() ends the script run by raising RerunException
Rerun(f) == IF f.raised = "" THEN [f EXCEPT !.raised = "RerunException"] ELSE f

\* process_user_input entered with the script run's frame f
ProcessTurn(f, user_input, http) ==
    LET r == send_message_to_api(http)
    IN Rerun(UpdateSearchResults(AppendAssistant(UpdateConversationId(
           RequireDict(Post(AppendUser(f, user_input), user_input, http), r),
           r), r), r))

process_user_input(s, user_input, http) == ProcessTurn(Frame(s), user_input, http)

(* ---------------- main ---------------- *)
\* variant: every run resets the session
ModeChangedAlways(selected_mode, s) == TRUE

ModeChanged(selected_mode, s) == selected_mode # s.mode

\* variant: the stored results survive the switch
SwitchModeKeepResults(s, selected_mode) ==
    IF ModeChanged(selected_mode, s)
    THEN [s EXCEPT !.mode = selected_mode, !.messages = <<>>,
                   !.conversation_id = None]
    ELSE s

\* variant: the conversation id survives the switch
SwitchModeKeepConversation(s, selected_mode) ==
    IF ModeChanged(selected_mode, s)
    THEN [s EXCEPT !.mode = selected_mode, !.messages = <<>>,
                   !.search_results = EmptyDict]
    ELSE s

\* lines 335-339
SwitchMode(s, selected_mode) ==
    IF ModeChanged(selected_mode, s)
    THEN [s EXCEPT !.mode = selected_mode, !.messages = <<>>,
                   !.conversation_id = None, !.search_results = EmptyDict]
    ELSE s

\* One script run.  clicked is the sample query whose button reports a
\* click (None when no button does), user_input the value of st.chat_input
\* (None when nothing was submitted).
\* variant: the chat input is processed without the test of line 417
mainNoGuard(s, selected_mode, clicked, user_input, http) ==
    LET s1 == SwitchMode(s, selected_mode)
        f1 == IF clicked.t = "str" THEN process_user_input(s1, clicked.v, http)
              ELSE Frame(s1)
    IN IF f1.raised = "" /\ user_input.t = "str"
       THEN ProcessTurn(f1, user_input.v, http)
       ELSE f1

\* the script reaches st.chat_input (line 416) only if no exception left
\* the sample-query loop (lines 361-364)
main(s, selected_mode, clicked, user_input, http) ==
    LET s1 == SwitchMode(s, selected_mode)
        f1 == IF clicked.t = "str" THEN process_user_input(s1, clicked.v, http)
              ELSE Frame(s1)
    IN IF f1.raised = "" /\ Truthy(user_input)
       THEN ProcessTurn(f1, user_input.v, http)
       ELSE f1

\* the first request a run posted, if any
RequestOf(f) == IF f.sent = <<>> THEN NoRequest ELSE f.sent[1]

\* What the backend was told and answered since the user last picked a
\* different mode:
\*   issued    the <<session id, mode>> pairs of the ids received in a 200
\*             response to a request sent in that mode
\*   fresh     no request was sent yet
\*   results   the last non-empty search_results mapping a 200 response held
\*   requests  how many requests were posted
\*   turns     how many times process_user_input was entered
HistoryAfter(selected_mode, f, http) ==
    LET switched == selected_mode # mode
        base == IF switched
                THEN [issued |-> {}, fresh |-> TRUE, results |-> EmptyDict,
                      requests |-> 0, turns |-> 0]
                ELSE history
        req == RequestOf(f)
        answered == req # NoRequest /\ http.kind = "json_object"
    IN [issued |-> IF answered /\ http.body.session_id.t = "str"
                   THEN base.issued \cup {<<http.body.session_id.v, req.mode>>}
                   ELSE base.issued,
        fresh |-> base.fresh /\ req = NoRequest,
        results |-> IF answered /\ http.body.search_results.value # EmptyDict
                    THEN http.body.search_results.value
                    ELSE base.results,
        requests |-> base.requests + Len(f.sent),
        turns |-> base.turns + f.turns]

\* the text the run handed to process_user_input first, else what the chat
\* input held
InputOf(clicked, user_input) == IF clicked.t = "str" THEN clicked ELSE user_input

Run(kind, selected_mode, clicked, user_input, http) ==
    \E f \in {main(Session, selected_mode, clicked, user_input, http)} :
       /\ messages' = f.s.messages
       /\ conversation_id' = f.s.conversation_id
       /\ mode' = f.s.mode
       /\ search_results' = f.s.search_results
       /\ last_run' = [kind |-> kind, prev_mode |-> mode,
                       selected_mode |-> selected_mode,
                       user_input |-> InputOf(clicked, user_input),
                       request |-> RequestOf(f),
                       sent |-> Len(f.sent), turns |-> f.turns,
                       http |-> IF f.sent = <<>> THEN NoHttp ELSE http,
                       raised |-> f.raised]
       /\ history' = HistoryAfter(selected_mode, f, http)
       /\ UNCHANGED <<rating, screen, suite>>

(* ---------------- display ---------------- *)
\* the glyphs U+2605 and U+00BD
FULL_STAR == "full"
HALF_STAR == "half"

\* variant: the half star needs a remainder above one half
display_stars_strict(r) ==
    LET full_stars == r \div 10
        half_star == r - 10 * full_stars > 5
    IN [i \in 1..full_stars |-> FULL_STAR] \o (IF half_star THEN <<HALF_STAR>> ELSE <<>>)

\* display_stars of a rating of r tenths: int(rating) truncates
display_stars(r) ==
    LET full_stars == r \div 10
        half_star == r - 10 * full_stars >= 5
    IN [i \in 1..full_stars |-> FULL_STAR] \o (IF half_star THEN <<HALF_STAR>> ELSE <<>>)

Categories == <<"flight", "hotel", "place">>
TabLabel(category) ==
    IF category = "flight" THEN "Flights"
    ELSE IF category = "hotel" THEN "Hotels"
    ELSE "Places to Visit"

\* variant: one tab per key, in the order of the keys
tabs_in_key_order(d) == [i \in 1..Len(d) |-> TabLabel(d[i][1])]

\* variant: a category without items gets no tab
tabs_of_items(d) ==
    (IF Items(d, "flight") # <<>> THEN <<"Flights">> ELSE <<>>)
    \o (IF Items(d, "hotel") # <<>> THEN <<"Hotels">> ELSE <<>>)
    \o (IF Items(d, "place") # <<>> THEN <<"Places to Visit">> ELSE <<>>)

\* lines 389-395
tabs_of(d) ==
    (IF Has(d, "flight") THEN <<"Flights">> ELSE <<>>)
    \o (IF Has(d, "hotel") THEN <<"Hotels">> ELSE <<>>)
    \o (IF Has(d, "place") THEN <<"Places to Visit">> ELSE <<>>)

\* display_flight_results / display_hotel_results / display_place_results:
\* the st.info notice for an empty list, one card per item otherwise
Panel(category, items) ==
    [category |-> category, notice |-> items = <<>>, cards |-> items]
EmptyPanel == [category |-> "", notice |-> FALSE, cards |-> <<>>]

\* lines 401-413 for one category: draw into selected_tab[tab_index] and
\* advance tab_index (0-based in the code, 1-based sequences here)
DrawCategory(acc, d, category) ==
    IF Has(d, category)
    THEN [panels |-> [acc.panels EXCEPT ![acc.tab_index + 1] =
                        Panel(category, Items(d, category))],
          tab_index |-> acc.tab_index + 1]
    ELSE acc

Blank == [section |-> FALSE, tabs |-> <<>>, panels |-> <<>>,
          stars_drawn |-> FALSE, stars |-> <<>>]

\* lines 385-413
display_results(scr, d) ==
    IF d = EmptyDict THEN [scr EXCEPT !.section = FALSE, !.tabs = <<>>, !.panels = <<>>]
    ELSE LET tabs == tabs_of(d)
             start == [panels |-> [i \in 1..Len(tabs) |-> EmptyPanel], tab_index |-> 0]
             drawn == DrawCategory(DrawCategory(DrawCategory(start, d, "flight"),
                                                d, "hotel"), d, "place")
         IN [scr EXCEPT !.section = TRUE, !.tabs = tabs,
                        !.panels = IF tabs # <<>> THEN drawn.panels ELSE <<>>]

\* the item lists and result mappings the display is given
ItemLists == {<<>>, <<"x1">>}
StoredDicts ==
    {d \in UNION {[1..n -> {<<c, l>> : c \in {"flight", "hotel", "place"},
                                       l \in ItemLists}] : n \in 0..3} :
        \A i, j \in 1..Len(d) : d[i][1] = d[j][1] => i = j}

Init ==
    /\ rating = 0
    /\ screen = Blank
    /\ suite = NoSuite
    /\ messages = <<>>
    /\ conversation_id = None
    /\ mode = DEFAULT_MODE
    /\ search_results = EmptyDict
    /\ history = [issued |-> {}, fresh |-> TRUE, results |-> EmptyDict,
                  requests |-> 0, turns |-> 0]
    /\ last_run = [kind |-> "init", prev_mode |-> DEFAULT_MODE,
                   selected_mode |-> DEFAULT_MODE, user_input |-> None,
                   request |-> NoRequest, sent |-> 0, turns |-> 0,
                   http |-> NoHttp, raised |-> ""]

\* the user picks a mode in the sidebar radio
SelectMode ==
    \E m \in ModeSet : Run("select", m, None, None, NoHttp)

\* the user clicks a sample-query button of the current mode; the radio
\* shows the current mode (its index is the session's mode, line 332)
ClickSample ==
    /\ Len(messages) + 2 <= MaxMessages
    /\ \E i \in 1..MaxSample, http \in HttpOutcomes :
          Run("sample", mode, Str(sample_queries[mode][i]), None, http)

\* the user submits the chat input
ChatInput ==
    /\ Len(messages) + 2 <= MaxMessages
    /\ \E text \in {"", "q"} :
          \E http \in IF text = "" THEN {NoHttp} ELSE HttpOutcomes :
              Run("chat", mode, None, Str(text), http)

\* one script run sees both a clicked sample-query button and a submitted
\* chat input
ClickAndChat ==
    /\ Len(messages) + 2 <= MaxMessages
    /\ \E http \in HttpOutcomes :
          Run("both", mode, Str(sample_queries[mode][1]), Str("q"), http)

Next == SelectMode \/ ClickSample \/ ChatInput \/ ClickAndChat

Spec == Init /\ [][Next]_vars

(* ---------------- the display of stored results ---------------- *)
\* a session whose stored results are any mapping a response may have left,
\* about to draw an item of any rating
InitDisplay ==
    /\ rating \in 0..MaxTenths
    /\ screen = Blank
    /\ suite = NoSuite
    /\ messages = <<>>
    /\ conversation_id = None
    /\ mode = DEFAULT_MODE
    /\ search_results \in StoredDicts
    /\ history = [issued |-> {}, fresh |-> TRUE, results |-> search_results,
                  requests |-> 0, turns |-> 0]
    /\ last_run = [kind |-> "init", prev_mode |-> DEFAULT_MODE,
                   selected_mode |-> DEFAULT_MODE, user_input |-> None,
                   request |-> NoRequest, sent |-> 0, turns |-> 0,
                   http |-> NoHttp, raised |-> ""]

DisplayResults ==
    /\ screen' = display_results(screen, search_results)
    /\ UNCHANGED <<messages, conversation_id, mode, search_results, last_run,
                   history, rating, suite>>

DisplayStars ==
    /\ screen' = [screen EXCEPT !.stars_drawn = TRUE, !.stars = display_stars(rating)]
    /\ UNCHANGED <<messages, conversation_id, mode, search_results, last_run,
                   history, rating, suite>>

NextDisplay == DisplayResults \/ DisplayStars

SpecDisplay == InitDisplay /\ [][NextDisplay]_vars

(* ---------------- the connection test script ---------------- *)
\* src/test_api_connection.py: run_all_tests runs five tests in order and
\* keeps each one's boolean result.

\* statuses a GET may be answered with
ProbeStatuses == {200, 204, 404, 500}

\* outcomes of requests.get(...):
\*   conn      requests.get raises (refused, timeout)
\*   answered  a response with a status and a body that is a JSON object
\*             ("object"), other valid JSON ("other") or not JSON ("text")
GetOutcomes ==
    {[kind |-> "conn", status |-> 0, shape |-> "none"]}
    \cup {[kind |-> "answered", status |-> st, shape |-> sh] :
            st \in ProbeStatuses, sh \in {"object", "other", "text"}}

\* response.json() raises on a body that is not JSON
JsonRaises(get) == get.shape = "text"

\* GET {API_URL}/: a raise anywhere in the try block, response.json()
\* included, is caught and the test fails
test_health_check(get) ==
    IF get.kind = "conn" THEN FALSE
    ELSE IF get.status = 200
         THEN IF JsonRaises(get) THEN FALSE ELSE TRUE
         ELSE FALSE

\* POST {API_URL}/api/chat: passes on a 200 whose JSON object has the four
\* keys response, session_id, mode and search_results; a body that is not
\* JSON, or JSON that is not an object, fails ("response" in data is False
\* or raises)
test_chat_api(test_mode, message, expected_results_key, http) ==
    IF http.kind = "json_object"
    THEN /\ http.body.response.t # "absent"
         /\ http.body.session_id.t # "absent"
         /\ http.body.mode.t # "absent"
         /\ http.body.search_results.present
    ELSE FALSE

\* GET {FRONTEND_URL}: the body is never decoded
test_frontend_connection(get) ==
    IF get.kind = "conn" THEN FALSE
    ELSE get.status = 200

tests ==
    << [name |-> "Health Check", function |-> "test_health_check", args |-> <<>>],
       [name |-> "Flight Mode", function |-> "test_chat_api",
        args |-> <<"flight", "Find flights from Riyadh to Jeddah", Str("flight")>>],
       [name |-> "Hotel Mode", function |-> "test_chat_api",
        args |-> <<"hotel", "Find hotels in Mecca", Str("hotel")>>],
       [name |-> "Trip Mode", function |-> "test_chat_api",
        args |-> <<"trip", "Plan a trip to Riyadh", None>>],
       [name |-> "Frontend Connection", function |-> "test_frontend_connection",
        args |-> <<>>] >>

\* the test the loop of run_all_tests is about to run
NextTest == tests[Len(suite.results) + 1]

\* results[test["name"]] = result
Record(result) == Append(suite.results, <<NextTest.name, result>>)

TestHealthCheck ==
    /\ Len(suite.results) < Len(tests)
    /\ NextTest.function = "test_health_check"
    /\ \E get \in GetOutcomes :
          suite' = [results |-> Record(test_health_check(get)), health |-> get]
    /\ UNCHANGED <<messages, conversation_id, mode, search_results, last_run,
                   history, rating, screen>>

TestChatApi ==
    /\ Len(suite.results) < Len(tests)
    /\ NextTest.function = "test_chat_api"
    /\ \E http \in HttpOutcomes :
          suite' = [suite EXCEPT !.results =
                      Record(test_chat_api(NextTest.args[1], NextTest.args[2],
                                           NextTest.args[3], http))]
    /\ UNCHANGED <<messages, conversation_id, mode, search_results, last_run,
                   history, rating, screen>>

TestFrontendConnection ==
    /\ Len(suite.results) < Len(tests)
    /\ NextTest.function = "test_frontend_connection"
    /\ \E get \in GetOutcomes :
          suite' = [suite EXCEPT !.results = Record(test_frontend_connection(get))]
    /\ UNCHANGED <<messages, conversation_id, mode, search_results, last_run,
                   history, rating, screen>>

NextProbe == TestHealthCheck \/ TestChatApi \/ TestFrontendConnection

SpecProbe == Init /\ [][NextProbe]_vars

(* ---------------- properties ---------------- *)
\* what the last script run did
TurnStarted == last_run.request # NoRequest
ModeSwitched == last_run.selected_mode # last_run.prev_mode
\* the turn's transport outcome, by the spec's classes
GotObject == TurnStarted /\ last_run.http.kind = "json_object"
TransportFailed == TurnStarted /\ last_run.http.kind \in {"http", "conn", "decode"}
Body == last_run.http.body
UserMessage == [role |-> "user", content |-> last_run.request.message]

\* C1: a run that selects a mode other than the session's leaves the session
\* with the selected mode, no messages, no conversation id and no results.
C1_SwitchResets ==
    [][(last_run'.kind = "select" /\ last_run'.selected_mode # mode) =>
          /\ mode' = last_run'.selected_mode
          /\ messages' = <<>>
          /\ conversation_id' = None
          /\ search_results' = EmptyDict]_vars
C1_Witness ==
    /\ last_run.kind = "select" /\ ModeSwitched
    /\ mode = last_run.selected_mode /\ mode # DEFAULT_MODE
    /\ messages = <<>> /\ conversation_id = None /\ search_results = EmptyDict

\* C2: a request with a non-empty session_id carries an id that a response
\* to an earlier request of the same mode delivered since the last mode
\* switch; the first request after a mode switch carries "".
C2_NoStaleConversation ==
    [][TurnStarted' =>
          /\ Truthy(last_run'.request.session_id) =>
                <<last_run'.request.session_id.v, last_run'.request.mode>>
                    \in history.issued
          /\ history.fresh => last_run'.request.session_id = Str("")]_vars
C2_Witness ==
    /\ TurnStarted /\ Truthy(last_run.request.session_id)
    /\ last_run.request.mode # DEFAULT_MODE

\* C3: a run that selects the session's current mode changes nothing of the
\* session.
C3_SameModeNoOp ==
    [][(last_run'.kind = "select" /\ last_run'.selected_mode = mode) =>
          Session' = Session]_vars
C3_Witness ==
    /\ last_run.kind = "select" /\ ~ModeSwitched
    /\ messages # <<>> /\ conversation_id # None /\ search_results # EmptyDict

\* C4: a 200 response whose search_results key is present with an empty
\* mapping leaves the session with no results.
C4_EmptyResultsClear ==
    (GotObject /\ Body.search_results = Results(EmptyDict)) =>
        search_results = EmptyDict

\* C5: a 200 response without a search_results key leaves the stored
\* results as they were before the turn.
C5_AbsentResultsKept ==
    [][(GotObject' /\ ~Body'.search_results.present) =>
          search_results' = search_results]_vars
C5_Witness ==
    /\ GotObject /\ ~Body.search_results.present
    /\ search_results # EmptyDict /\ messages[Len(messages)].role = "assistant"

\* C6: every turn, whatever the backend does, grows messages by exactly
\* two, the user message and then one assistant message.
C6_TurnGrowsByTwo ==
    [][TurnStarted' =>
          /\ Len(messages') = Len(messages) + 2
          /\ messages'[Len(messages') - 1] = UserMessage'
          /\ messages'[Len(messages')].role = "assistant"]_vars

\* C7: a turn whose transport fails leaves the conversation id and the
\* stored results as they were before the turn.
C7_FailureKeepsContext ==
    [][TransportFailed' =>
          /\ conversation_id' = conversation_id
          /\ search_results' = search_results]_vars
C7_Witness ==
    /\ TransportFailed /\ last_run.http.kind = "http" /\ Body = LoadedBody
    /\ conversation_id = Str("s1")
    /\ search_results = << <<"flight", <<"f1">> >>, <<"hotel", <<>> >> >>

\* C8: after a turn either the whole returned response is folded into the
\* session (assistant message, conversation id, results) or none of it is.
Returned == send_message_to_api(last_run.http).d
WholeFolded ==
    /\ messages' = messages \o
          <<UserMessage',
            [role |-> "assistant",
             content |-> IF Returned'.response.t = "str" THEN Returned'.response.v ELSE ""]>>
    /\ conversation_id' = IF Truthy(Returned'.session_id) THEN Returned'.session_id
                          ELSE conversation_id
    /\ search_results' = IF Returned'.search_results.value # EmptyDict
                         THEN Returned'.search_results.value
                         ELSE search_results
NoneFolded ==
    /\ messages' = messages \o <<UserMessage'>>
    /\ conversation_id' = conversation_id
    /\ search_results' = search_results
C8_AtomicTurn == [][TurnStarted' => (WholeFolded \/ NoneFolded)]_vars
C8_Witness ==
    /\ GotObject /\ Body.response = Absent
    /\ Body.session_id = Str("s2") /\ conversation_id = Str("s2")
    /\ Body.search_results.value # EmptyDict
    /\ search_results = Body.search_results.value
    /\ Len(messages) = 4 /\ messages[4] = [role |-> "assistant", content |-> ""]

\* C9: the session_id of every request is a string: the conversation id
\* when one is set, "" when none is.
C9_SessionIdIsString ==
    [][TurnStarted' =>
          /\ last_run'.request.session_id.t = "str"
          /\ conversation_id # None => last_run'.request.session_id = conversation_id
          /\ conversation_id = None => last_run'.request.session_id = Str("")]_vars
C9_Witness ==
    /\ TurnStarted /\ last_run.request.session_id = Str("")
    /\ conversation_id = None /\ Len(messages) = 4

\* C10: after a 200 response the conversation id is the response's
\* session_id when that is non-empty and the former id otherwise.
C10_ConversationIdUpdate ==
    [][GotObject' =>
          conversation_id' =
              IF Body'.session_id.t = "str" /\ Body'.session_id.v # ""
              THEN Body'.session_id ELSE conversation_id]_vars
C10_Witness ==
    /\ GotObject /\ Body.session_id = Str("")
    /\ conversation_id = Str("s1")

\* C11: a 200 response with a non-empty search_results mapping leaves exactly
\* that mapping stored, and the stored results are always the last non-empty
\* mapping received since the last mode switch.
C11_ResultsReplaced ==
    /\ [](search_results = history.results)
    /\ [][(GotObject' /\ Body'.search_results.value # EmptyDict) =>
             search_results' = Body'.search_results.value]_vars
C11_Witness ==
    /\ GotObject /\ Len(messages) = 4
    /\ Body.search_results.value = << <<"hotel", <<"h1">> >> >>
    /\ search_results = << <<"hotel", <<"h1">> >> >>
    /\ ~Has(search_results, "flight")

\* the drawn tabs and the category drawn under a tab label
TabSet == {screen.tabs[i] : i \in 1..Len(screen.tabs)}
CategorySet == {Categories[i] : i \in 1..Len(Categories)}
TabAt(category) == CHOOSE i \in 1..Len(screen.tabs) : screen.tabs[i] = TabLabel(category)

StartsWith(text, part) ==
    Len(text) >= Len(part) /\ SubSeq(text, 1, Len(part)) = part
Contains(text, part) ==
    \E i \in 1..(Len(text) - Len(part) + 1) : SubSeq(text, i, i + Len(part) - 1) = part

\* C13: a turn whose transport fails completes and appends one assistant
\* message that starts with "Error:" and, for a non-200 status, holds the
\* status code.
C13_FailureBecomesMessage ==
    [][TransportFailed' =>
          /\ last_run'.raised = "RerunException"
          /\ Len(messages') = Len(messages) + 2
          /\ messages'[Len(messages') - 1] = UserMessage'
          /\ messages'[Len(messages')].role = "assistant"
          /\ StartsWith(messages'[Len(messages')].content, "Error:")
          /\ last_run'.http.kind = "http" =>
                Contains(messages'[Len(messages')].content,
                         ToString(last_run'.http.status))]_vars
C13_Witness ==
    /\ TransportFailed /\ last_run.http.kind = "http" /\ last_run.http.status = 404
    /\ messages[Len(messages)].role = "assistant"
    /\ Contains(messages[Len(messages)].content, "404")

C15_OneRequestPerTurn ==
    /\ last_run.sent = last_run.turns
    /\ history.requests = history.turns
C15_Witness ==
    /\ TransportFailed /\ last_run.http.kind = "conn"
    /\ history.turns = 2 /\ history.requests = 2

\* C16: the star string of a rating is floor(r) full stars, then one half
\* star exactly when the remainder is at least one half.
C16_Stars ==
    screen.stars_drawn =>
        /\ Len(screen.stars) = (rating \div 10) + (IF rating % 10 >= 5 THEN 1 ELSE 0)
        /\ \A i \in 1..Len(screen.stars) :
              screen.stars[i] = IF i <= rating \div 10 THEN FULL_STAR ELSE HALF_STAR
        /\ rating \in {45, 49} =>
              screen.stars = <<FULL_STAR, FULL_STAR, FULL_STAR, FULL_STAR, HALF_STAR>>
        /\ rating = 30 => screen.stars = <<FULL_STAR, FULL_STAR, FULL_STAR>>
C16_Witness ==
    /\ screen.stars_drawn /\ rating = 49
    /\ screen.stars = <<FULL_STAR, FULL_STAR, FULL_STAR, FULL_STAR, HALF_STAR>>

\* C17: the tabs are the stored categories in the order flights, hotels,
\* places, and each tab holds the items of its own category.
Rank(label) == CHOOSE i \in 1..Len(Categories) : TabLabel(Categories[i]) = label
C17_TabOrder ==
    screen.section =>
        /\ TabSet = {TabLabel(c) : c \in {k \in CategorySet : Has(search_results, k)}}
        /\ \A i, j \in 1..Len(screen.tabs) :
              i < j => Rank(screen.tabs[i]) < Rank(screen.tabs[j])
        /\ Len(screen.panels) = Len(screen.tabs)
        /\ \A i \in 1..Len(screen.tabs) :
              /\ TabLabel(screen.panels[i].category) = screen.tabs[i]
              /\ screen.panels[i].cards =
                    Items(search_results, Categories[Rank(screen.tabs[i])])
C17_Witness ==
    /\ screen.section
    /\ Len(search_results) = 3 /\ search_results[1][1] = "place"
    /\ search_results[3][1] = "flight" /\ search_results[3][2] # <<>>
    /\ screen.tabs = <<"Flights", "Hotels", "Places to Visit">>
    /\ screen.panels[1].cards = search_results[3][2]

\* C18: a run whose input is empty appends nothing, posts nothing and
\* leaves the session as it was; no sample query is empty.
C18_EmptyInputNoOp ==
    [][/\ (last_run'.kind \in {"chat", "sample", "both"}
            /\ ~Truthy(last_run'.user_input)) =>
              /\ Session' = Session
              /\ last_run'.sent = 0 /\ last_run'.turns = 0
       /\ last_run'.kind \in {"sample", "both"} => Truthy(last_run'.user_input)]_vars
C18_Witness ==
    /\ last_run.kind = "chat" /\ last_run.user_input = Str("")
    /\ last_run.sent = 0 /\ messages # <<>> /\ conversation_id # None

\* C19: unless the run switches to a different mode, the messages before
\* it are a prefix of the messages after it.
IsPrefix(a, b) == Len(a) <= Len(b) /\ SubSeq(b, 1, Len(a)) = a
C19_AppendOnly ==
    [][last_run'.selected_mode = mode => IsPrefix(messages, messages')]_vars
C19_Witness ==
    /\ TurnStarted /\ ~ModeSwitched /\ Len(messages) = 4
    /\ messages[1].role = "user" /\ messages[2].role = "assistant"

\* C20: a 200 body that lacks a field is taken with that field's default:
\* no response text gives an empty assistant message, no session_id keeps
\* the conversation id, and the turn completes with two more messages.
C20_MissingFieldDefaults ==
    [][GotObject' =>
          /\ last_run'.raised = "RerunException"
          /\ Len(messages') = Len(messages) + 2
          /\ messages'[Len(messages')].role = "assistant"
          /\ Body'.response = Absent => messages'[Len(messages')].content = ""
          /\ Body'.session_id = Absent => conversation_id' = conversation_id]_vars
C20_Witness ==
    /\ GotObject /\ Body = EmptyBody /\ conversation_id = Str("s1")
    /\ Len(messages) = 4 /\ messages[4] = [role |-> "assistant", content |-> ""]

\* C21: the mode starts at trip, is always one of trip, flight, hotel,
\* changes only to the mode the user selected, and is left alone by every
\* response, whatever mode the response echoes.
C21_ModeOnlyBySelection ==
    /\ mode = DEFAULT_MODE
    /\ [](mode \in ModeSet)
    /\ [][mode' # mode =>
             (last_run'.kind = "select" /\ mode' = last_run'.selected_mode)]_vars
    /\ [][TurnStarted' => mode' = mode]_vars
C21_Witness ==
    /\ GotObject /\ Body.mode = Str("hotel") /\ Body.session_id = Str("s2")
    /\ mode = "flight" /\ conversation_id = Str("s2")

\* the health check has run and its result is stored
HealthChecked == Len(suite.results) >= 1 /\ suite.results[1][1] = "Health Check"
HealthResult == suite.results[1][2]

\* C22: the health check passes for every answer with status 200, whatever
\* the shape of the body (a body that is not JSON included), and fails for
\* every other status and for a connection failure.
C22_HealthyOnAny200 ==
    HealthChecked =>
        (HealthResult <=> (suite.health.kind = "answered" /\ suite.health.status = 200))
====
